---------------------------- MODULE Spec2Model ----------------------------
(***************************************************************************)
(* State machine of src/server.js: the in-memory alert store (cameraAlerts,*)
(* sosAlerts), the connection-keyed registries (connectedOfficers,         *)
(* activeTracking), the socket.io event handlers and the HTTP handlers.    *)
(* Node runs every handler to completion on one thread, so one action is   *)
(* one whole handler.                                                      *)
(*                                                                         *)
(* JavaScript values are tagged pairs <<tag, payload>>: a number is        *)
(* <<"num", n>>, a string <<"str", s>>, undefined <<"undef", 0>>, null     *)
(* <<"null", 0>>, NaN <<"nan", 0>>, an ISO timestamp <<"time", t>>.        *)
(* Coordinates are fixed-point, in units of 0.0001 degree (11.1085 is      *)
(* 111085).                                                                *)
(***************************************************************************)
EXTENDS Integers, Sequences, FiniteSets, Bags, TLC

VARIABLES
    cameraAlerts,       \* src/server.js:51, newest first
    sosAlerts,          \* src/server.js:52, newest first
    activeTracking,     \* src/server.js:53, Map socket.id -> tracking session
    connectedOfficers,  \* src/server.js:57, Map socket.id -> officer
    sockets,            \* the connections socket.io holds open (io.emit's audience)
    now,                \* the wall clock read by new Date() / Date.now()
    serial,             \* how many alert ids have been generated
    appended,           \* history: per kind, the ids unshifted since the last clear, oldest first
    event,              \* the request or socket event the last handler processed
    emitted,            \* the emit calls of the last handler, in program order
    response            \* the HTTP response of the last handler (status 0: none)

vars == <<cameraAlerts, sosAlerts, activeTracking, connectedOfficers, sockets,
          now, serial, appended, event, emitted, response>>

-----------------------------------------------------------------------------
(* Bounds of the model *)

\* Alert ids generated in one run (ingestions that reach the id expression).
MaxSerial == 3
\* Ticks of the wall clock in one run.
MaxClock == 1
\* Alert ids generated in a run that explores the registries.
MaxTracked == 1
\* Alert ids generated in a run that explores the timestamps.
MaxStamped == 1

\* The connections that may be open; socket.io gives each a socket.id. A name
\* that connects again after its disconnect stands for a new connection.
Conns == {"s1", "s2"}

-----------------------------------------------------------------------------
(* JavaScript values *)

Num(n) == <<"num", n>>
Str(s) == <<"str", s>>
Time(t) == <<"time", t>>
Undef == <<"undef", 0>>
Null == <<"null", 0>>
NaN == <<"nan", 0>>

\* ToBoolean, as `||` and `?.` read it: false for undefined, null, NaN, 0 and "".
Truthy(v) ==
    CASE v[1] = "num" -> v[2] # 0
      [] v[1] = "str" -> v[2] # ""
      [] v[1] = "time" -> TRUE
      [] OTHER -> FALSE

\* a || b
Or(a, b) == IF Truthy(a) THEN a ELSE b

\* parseFloat on the strings the inputs use: the longest numeric prefix, NaN without one.
ParseFloatStr(s) ==
    CASE s = "12.1" -> Num(121000)
      [] s = "77.2" -> Num(772000)
      [] s = "13.5" -> Num(135000)
      [] s = "80.25" -> Num(802500)
      [] s = "0" -> Num(0)
      [] OTHER -> NaN

\* parseFloat(v): a number is converted to a string and parsed back (itself);
\* undefined, null and NaN give NaN.
ParseFloat(v) ==
    CASE v[1] = "num" -> v
      [] v[1] = "str" -> ParseFloatStr(v[2])
      [] OTHER -> NaN

\* parseInt on the strings the inputs use: optional sign and leading digits, NaN without.
ParseIntStr(s) ==
    CASE s = "2" -> Num(2)
      [] s = "3 people" -> Num(3)
      [] s = "-1" -> Num(-1)
      [] s = "0" -> Num(0)
      [] OTHER -> NaN

\* parseInt(v) for the integer-valued numbers and the strings the inputs use.
ParseInt(v) ==
    CASE v[1] = "num" -> v
      [] v[1] = "str" -> ParseIntStr(v[2])
      [] OTHER -> NaN

\* String.prototype.toUpperCase on the strings the inputs use.
ToUpperCase(s) ==
    CASE s = "high" -> "HIGH"
      [] s = "Low" -> "LOW"
      [] s = "urgent" -> "URGENT"
      [] OTHER -> s

-----------------------------------------------------------------------------
(* Program constants *)

API_KEY == Str("secure_key_123")

\* const MAX_ALERTS = 200 in the source. The cap is scaled down so that runs
\* of MaxSerial ingestions fill a collection and evict from it.
MAX_ALERTS == 2

DefaultLat == 111085
DefaultLng == 773411


-----------------------------------------------------------------------------
(* Inputs *)

NoConn == "none"

\* The x-api-key header: the secret, another string, or no header.
ApiKeys == {API_KEY, Str("wrong_key"), Undef}

\* Bodies of POST /send-alert (the fields the modelled alert fields are computed from).
CameraBodies ==
    { [severity |-> Undef,         personCount |-> Undef],
      [severity |-> Str("high"),   personCount |-> Str("2")],
      [severity |-> Str("urgent"), personCount |-> Str("-1")],
      [severity |-> Num(3),        personCount |-> Num(2)] }

\* Bodies of POST /send-sos-alert.
SosBodies ==
    { [userName |-> Undef], [userName |-> Str("Meena")] }

\* Every id the two id expressions can generate within MaxSerial, generated or not.
AlertIds == {<<p, n>> : p \in {"CAM-ALERT", "SOS-ALERT"}, n \in 1..MaxSerial}

\* alertType of POST /resolve-alert and POST /clear-alerts.
AlertTypes == {Str("camera"), Str("sos"), Str("all"), Undef}

\* Payloads of officer_login.
OfficerInputs ==
    { [name |-> Undef, lat |-> Undef, lng |-> Undef, unit |-> Undef],
      [name |-> Str("Asha"), lat |-> Num(135000), lng |-> Num(802500), unit |-> Str("Unit-07")] }

\* Payloads of start_tracking.
TrackingInputs ==
    { [alertId |-> <<"CAM-ALERT", 1>>, alertLat |-> Str("12.1"), alertLng |-> Str("77.2"),
       alertType |-> Undef],
      [alertId |-> <<"SOS-ALERT", 2>>, alertLat |-> Num(121000), alertLng |-> Num(772000),
       alertType |-> Str("sos")] }

\* Payloads of update_location.
LocationInputs ==
    { [lat |-> Num(121000), lng |-> Num(772000)],
      [lat |-> Str("13.5"),  lng |-> Str("80.25")],
      [lat |-> Str("n/a"),   lng |-> Undef],
      [lat |-> Num(0),       lng |-> Num(0)] }

-----------------------------------------------------------------------------
(* Helpers of the handlers *)

\* io.emit(ev, payload): one packet to every connected socket.
IoEmit(audience, ev, payload) == [to |-> audience, event |-> ev, payload |-> payload]

\* SocketEmit that broadcasts (io.emit for socket.emit).
SocketEmitToAll(c, ev, payload) == [to |-> sockets \cup {c}, event |-> ev, payload |-> payload]

\* socket.emit(ev, payload): one packet to this socket.
SocketEmit(c, ev, payload) == [to |-> {c}, event |-> ev, payload |-> payload]

NoPayload == Undef

\* No HTTP response: the step was a socket event or a clock tick.
NoResponse == [status |-> 0]

\* Unshift with the cap tested by >= : a full collection loses an entry too many.
UnshiftCapOffByOne(alerts, alert) ==
    LET grown == <<alert>> \o alerts
    IN  IF Len(grown) >= MAX_ALERTS THEN SubSeq(grown, 1, Len(grown) - 1) ELSE grown

\* Unshift that pushes at the tail and evicts from the head.
UnshiftAtTail(alerts, alert) ==
    LET grown == alerts \o <<alert>>
    IN  IF Len(grown) > MAX_ALERTS THEN Tail(grown) ELSE grown

\* alerts.unshift(alert); if (alerts.length > MAX_ALERTS) alerts.pop();
Unshift(alerts, alert) ==
    LET grown == <<alert>> \o alerts
    IN  IF Len(grown) > MAX_ALERTS THEN SubSeq(grown, 1, Len(grown) - 1) ELSE grown

\* alerts.findIndex(a => a.id === alertId): the first index, 0 for -1.
FindIndex(alerts, alertId) ==
    IF \E i \in 1..Len(alerts) : alerts[i].id = alertId
    THEN CHOOSE i \in 1..Len(alerts) :
            /\ alerts[i].id = alertId
            /\ \A j \in 1..(i - 1) : alerts[j].id # alertId
    ELSE 0

\* Unauthorized that tests the key only when a header is present.
UnauthorizedIfPresent(apiKey) == apiKey[1] = "str" /\ apiKey # API_KEY

\* if (apiKey !== API_KEY): strict inequality, so a missing header is refused too.
Unauthorized(apiKey) == apiKey # API_KEY

\* Resolved that forgets the timestamp.
ResolvedNoStamp(alert, t) == [alert EXCEPT !.status = "resolved"]

\* Resolved that keeps the timestamp of an alert that already has one.
ResolvedOnce(alert, t) ==
    [alert EXCEPT !.status = "resolved",
                  !.respondedAt = IF @ \in {Null, Undef} THEN Time(t) ELSE @]

\* alert.status = 'resolved'; alert.respondedAt = new Date().toISOString();
Resolved(alert, t) == [alert EXCEPT !.status = "resolved", !.respondedAt = Time(t)]

\* ClearKind that ignores alertType.
ClearKindAlwaysAll(alertType) == "all"

\* The branch of POST /clear-alerts that alertType selects.
ClearKind(alertType) ==
    IF alertType = Str("camera") THEN "camera"
    ELSE IF alertType = Str("sos") THEN "sos"
    ELSE "all"

\* Moved that writes the latitude into both fields.
MovedLatTwice(tracking, location) ==
    [tracking EXCEPT !.officerLat = ParseFloat(location.lat),
                     !.officerLng = ParseFloat(location.lat)]

\* tracking.officerLat = parseFloat(location.lat); tracking.officerLng = parseFloat(location.lng);
Moved(tracking, location) ==
    [tracking EXCEPT !.officerLat = ParseFloat(location.lat),
                     !.officerLng = ParseFloat(location.lng)]

\* HasOfficer that admits every connection.
HasOfficerAlways(officers, c) == TRUE

\* connectedOfficers.has(socket.id)
HasOfficer(officers, c) == c \in DOMAIN officers

\* new Map()
EmptyMap == [k \in {} |-> Undef]

\* MapDelete that deletes nothing.
MapDeleteNothing(map, key) == map

\* MapDelete that clears the map (map.clear() for map.delete(key)).
MapDeleteAll(map, key) == EmptyMap

\* map.delete(key)
MapDelete(map, key) == [k \in DOMAIN map \ {key} |-> map[k]]

\* MapSet that keeps the entry a key already has.
MapSetIfAbsent(map, key, value) ==
    [k \in DOMAIN map \cup {key} |-> IF k \in DOMAIN map THEN map[k] ELSE value]

\* map.set(key, value)
MapSet(map, key, value) == [k \in DOMAIN map \cup {key} |-> IF k = key THEN value ELSE map[k]]

\* Array.from(map.values()): the values with their multiplicities, as a bag
\* (the array's order, the Map's insertion order, is not kept).
Values(map) ==
    [v \in {map[k] : k \in DOMAIN map} |-> Cardinality({k \in DOMAIN map : map[k] = v})]

\* The alert object of POST /send-alert. The id, built from Date.now() and a
\* random suffix, is the n-th id generated: ids are fresh. Only the fields the
\* properties read are kept; the other fields are defaults of the same `a.x || d` form.
CameraAlert(a, n, t) ==
    [ id          |-> <<"CAM-ALERT", n>>,
      type        |-> "camera",
      severity    |-> Str(ToUpperCase(Or(a.severity, Str("MEDIUM"))[2])),
      personCount |-> Or(ParseInt(a.personCount), Num(0)),
      status      |-> "active",
      receivedAt  |-> Time(t),
      respondedAt |-> Null ]

\* (a.severity || 'MEDIUM').toUpperCase() throws a TypeError unless the value is a string.
CameraAlertThrows(a) == Or(a.severity, Str("MEDIUM"))[1] # "str"

\* The alert object of POST /send-sos-alert (respondedAt is not set: it reads undefined).
SosAlert(a, n, t) ==
    [ id          |-> <<"SOS-ALERT", n>>,
      type        |-> "sos",
      severity    |-> Str("CRITICAL"),
      userName    |-> Or(a.userName, Str("Anonymous")),
      status      |-> "active",
      receivedAt  |-> Time(t),
      respondedAt |-> Undef ]

\* The officer object of officer_login.
Officer(officer, t) ==
    [ name      |-> Or(officer.name, Str("Officer")),
      lat       |-> Or(officer.lat, Num(DefaultLat)),
      lng       |-> Or(officer.lng, Num(DefaultLng)),
      unit      |-> Or(officer.unit, Str("Unit-01")),
      status    |-> "available",
      loginTime |-> Time(t) ]

\* The session object of start_tracking; officer?.lat is undefined without an officer.
Tracking(data, officers, c, t) ==
    LET lat == IF c \in DOMAIN officers THEN officers[c].lat ELSE Undef
        lng == IF c \in DOMAIN officers THEN officers[c].lng ELSE Undef
    IN  [ alertId    |-> data.alertId,
          alertLat   |-> ParseFloat(data.alertLat),
          alertLng   |-> ParseFloat(data.alertLng),
          alertType  |-> Or(data.alertType, Str("camera")),
          officerLat |-> Or(lat, Num(DefaultLat)),
          officerLng |-> Or(lng, Num(DefaultLng)),
          startTime  |-> Time(t),
          status     |-> "tracking" ]

-----------------------------------------------------------------------------
(* Initial state: the module-level declarations, no connection yet *)

Init ==
    /\ cameraAlerts = <<>>
    /\ sosAlerts = <<>>
    /\ activeTracking = EmptyMap
    /\ connectedOfficers = EmptyMap
    /\ sockets = {}
    /\ now = 0
    /\ serial = 0
    /\ appended = [camera |-> <<>>, sos |-> <<>>]
    /\ event = [op |-> "init", conn |-> NoConn, arg |-> Undef]
    /\ emitted = <<>>
    /\ response = NoResponse

-----------------------------------------------------------------------------
(* The socket.io handlers, src/server.js:60-139 *)

\* io.on('connection'): a new socket joins and is sent both collections.
Connection(c) ==
    /\ c \notin sockets
    /\ sockets' = sockets \cup {c}
    /\ event' = [op |-> "connection", conn |-> c, arg |-> Undef]
    /\ emitted' = << SocketEmit(c, "all_camera_alerts", cameraAlerts),
                     SocketEmit(c, "all_sos_alerts", sosAlerts) >>
    /\ response' = NoResponse
    /\ UNCHANGED <<cameraAlerts, sosAlerts, activeTracking, connectedOfficers,
                   now, serial, appended>>

\* socket.on('officer_login')
OfficerLogin(c, officer) ==
    /\ c \in sockets
    /\ connectedOfficers' = MapSet(connectedOfficers, c, Officer(officer, now))
    /\ event' = [op |-> "officer_login", conn |-> c, arg |-> officer]
    /\ emitted' = << IoEmit(sockets, "officers_updated", Values(connectedOfficers')) >>
    /\ response' = NoResponse
    /\ UNCHANGED <<cameraAlerts, sosAlerts, activeTracking, sockets, now, serial, appended>>

\* socket.on('start_tracking')
StartTracking(c, data) ==
    /\ c \in sockets
    /\ activeTracking' = MapSet(activeTracking, c, Tracking(data, connectedOfficers, c, now))
    /\ event' = [op |-> "start_tracking", conn |-> c, arg |-> data]
    /\ emitted' = << SocketEmit(c, "tracking_started",
                                [success |-> TRUE, alertId |-> data.alertId]),
                     IoEmit(sockets, "tracking_update",
                            [officerId |-> c, trackingData |-> activeTracking'[c]]) >>
    /\ response' = NoResponse
    /\ UNCHANGED <<cameraAlerts, sosAlerts, connectedOfficers, sockets, now, serial, appended>>

\* socket.on('update_location'): everything is inside if (connectedOfficers.has(socket.id)).
UpdateLocation(c, location) ==
    /\ c \in sockets
    /\ event' = [op |-> "update_location", conn |-> c, arg |-> location]
    /\ response' = NoResponse
    /\ IF HasOfficer(connectedOfficers, c)
       THEN /\ connectedOfficers' =
                 [connectedOfficers EXCEPT ![c].lat = ParseFloat(location.lat),
                                           ![c].lng = ParseFloat(location.lng)]
            /\ IF c \in DOMAIN activeTracking
               THEN /\ activeTracking' =
                         [activeTracking EXCEPT ![c] = Moved(@, location)]
                    /\ emitted' = << IoEmit(sockets, "tracking_update",
                                            [officerId |-> c,
                                             trackingData |-> activeTracking'[c]]) >>
               ELSE /\ emitted' = <<>>
                    /\ UNCHANGED activeTracking
       ELSE /\ emitted' = <<>>
            /\ UNCHANGED <<connectedOfficers, activeTracking>>
    /\ UNCHANGED <<cameraAlerts, sosAlerts, sockets, now, serial, appended>>

\* socket.on('stop_tracking')
StopTracking(c) ==
    /\ c \in sockets
    /\ activeTracking' = MapDelete(activeTracking, c)
    /\ event' = [op |-> "stop_tracking", conn |-> c, arg |-> Undef]
    /\ emitted' = << IoEmit(sockets, "tracking_stopped", [officerId |-> c]) >>
    /\ response' = NoResponse
    /\ UNCHANGED <<cameraAlerts, sosAlerts, connectedOfficers, sockets, now, serial, appended>>

\* socket.on('disconnect'): socket.io has already dropped the socket; the handler emits nothing.
Disconnect(c) ==
    /\ c \in sockets
    /\ sockets' = sockets \ {c}
    /\ connectedOfficers' = MapDelete(connectedOfficers, c)
    /\ activeTracking' = MapDelete(activeTracking, c)
    /\ event' = [op |-> "disconnect", conn |-> c, arg |-> Undef]
    /\ emitted' = <<>>
    /\ response' = NoResponse
    /\ UNCHANGED <<cameraAlerts, sosAlerts, now, serial, appended>>

-----------------------------------------------------------------------------
(* The HTTP handlers, src/server.js:142-323 *)

\* app.post('/send-alert')
SendAlert(apiKey, a) ==
    /\ event' = [op |-> "send_alert", conn |-> NoConn, arg |-> [apiKey |-> apiKey, body |-> a]]
    /\ IF Unauthorized(apiKey)
       THEN /\ response' = [status |-> 403, success |-> FALSE]
            /\ emitted' = <<>>
            /\ UNCHANGED <<cameraAlerts, serial, appended>>
       ELSE IF CameraAlertThrows(a)
       THEN /\ response' = [status |-> 500, success |-> FALSE]
            /\ emitted' = <<>>
            /\ UNCHANGED <<cameraAlerts, serial, appended>>
       ELSE LET alert == CameraAlert(a, serial + 1, now)
            IN  /\ serial < MaxSerial
                /\ serial' = serial + 1
                /\ cameraAlerts' = Unshift(cameraAlerts, alert)
                /\ appended' = [appended EXCEPT !.camera = Append(@, alert.id)]
                /\ emitted' = << IoEmit(sockets, "new_camera_alert", alert) >>
                /\ response' = [status |-> 200, success |-> TRUE, alert |-> alert]
    /\ UNCHANGED <<sosAlerts, activeTracking, connectedOfficers, sockets, now>>

\* app.post('/send-sos-alert'); nothing in its try block throws on a body object.
SendSosAlert(apiKey, a) ==
    /\ event' = [op |-> "send_sos_alert", conn |-> NoConn,
                 arg |-> [apiKey |-> apiKey, body |-> a]]
    /\ IF Unauthorized(apiKey)
       THEN /\ response' = [status |-> 403, success |-> FALSE]
            /\ emitted' = <<>>
            /\ UNCHANGED <<sosAlerts, serial, appended>>
       ELSE LET alert == SosAlert(a, serial + 1, now)
            IN  /\ serial < MaxSerial
                /\ serial' = serial + 1
                /\ sosAlerts' = Unshift(sosAlerts, alert)
                /\ appended' = [appended EXCEPT !.sos = Append(@, alert.id)]
                /\ emitted' = << IoEmit(sockets, "new_sos_alert", alert) >>
                /\ response' = [status |-> 200, success |-> TRUE, alert |-> alert]
    /\ UNCHANGED <<cameraAlerts, activeTracking, connectedOfficers, sockets, now>>

\* app.post('/resolve-alert')
ResolveAlert(alertId, alertType) ==
    LET sos == alertType = Str("sos")
        alerts == IF sos THEN sosAlerts ELSE cameraAlerts
        index == FindIndex(alerts, alertId)
    IN  /\ event' = [op |-> "resolve_alert", conn |-> NoConn,
                     arg |-> [alertId |-> alertId, alertType |-> alertType]]
        /\ IF index = 0
           THEN /\ response' = [status |-> 404, success |-> FALSE]
                /\ emitted' = <<>>
                /\ UNCHANGED <<cameraAlerts, sosAlerts>>
           ELSE LET alert == Resolved(alerts[index], now)
                IN  /\ IF sos
                       THEN /\ sosAlerts' = [sosAlerts EXCEPT ![index] = alert]
                            /\ UNCHANGED cameraAlerts
                       ELSE /\ cameraAlerts' = [cameraAlerts EXCEPT ![index] = alert]
                            /\ UNCHANGED sosAlerts
                    /\ emitted' = << IoEmit(sockets, "alert_resolved",
                                            [alert |-> alert, alertType |-> alertType]) >>
                    /\ response' = [status |-> 200, success |-> TRUE, alert |-> alert]
        /\ UNCHANGED <<activeTracking, connectedOfficers, sockets, now, serial, appended>>

\* app.post('/clear-alerts')
ClearAlerts(alertType) ==
    /\ event' = [op |-> "clear_alerts", conn |-> NoConn, arg |-> [alertType |-> alertType]]
    /\ IF ClearKind(alertType) = "camera"
       THEN /\ cameraAlerts' = <<>>
            /\ appended' = [appended EXCEPT !.camera = <<>>]
            /\ emitted' = << IoEmit(sockets, "camera_alerts_cleared", NoPayload) >>
            /\ response' = [status |-> 200, success |-> TRUE,
                            cleared |-> Len(cameraAlerts), type |-> "camera"]
            /\ UNCHANGED sosAlerts
       ELSE IF ClearKind(alertType) = "sos"
       THEN /\ sosAlerts' = <<>>
            /\ appended' = [appended EXCEPT !.sos = <<>>]
            /\ emitted' = << IoEmit(sockets, "sos_alerts_cleared", NoPayload) >>
            /\ response' = [status |-> 200, success |-> TRUE,
                            cleared |-> Len(sosAlerts), type |-> "sos"]
            /\ UNCHANGED cameraAlerts
       ELSE /\ cameraAlerts' = <<>>
            /\ sosAlerts' = <<>>
            /\ appended' = [camera |-> <<>>, sos |-> <<>>]
            /\ emitted' = << IoEmit(sockets, "all_alerts_cleared", NoPayload) >>
            /\ response' = [status |-> 200, success |-> TRUE,
                            cleared |-> Len(cameraAlerts) + Len(sosAlerts), type |-> "all"]
    /\ UNCHANGED <<activeTracking, connectedOfficers, sockets, now, serial>>

\* app.get('/tracking-data'): both maps' entries, each tagged with its socket id.
GetTrackingData ==
    /\ event' = [op |-> "tracking_data", conn |-> NoConn, arg |-> Undef]
    /\ emitted' = <<>>
    /\ response' = [status |-> 200, success |-> TRUE,
                    tracking |-> {[officerId |-> k, data |-> activeTracking[k]] :
                                    k \in DOMAIN activeTracking},
                    officers |-> {[id |-> k, data |-> connectedOfficers[k]] :
                                    k \in DOMAIN connectedOfficers}]
    /\ UNCHANGED <<cameraAlerts, sosAlerts, activeTracking, connectedOfficers, sockets,
                   now, serial, appended>>

\* Time passes between two handlers.
Tick ==
    /\ now < MaxClock
    /\ now' = now + 1
    /\ event' = [op |-> "tick", conn |-> NoConn, arg |-> Undef]
    /\ emitted' = <<>>
    /\ response' = NoResponse
    /\ UNCHANGED <<cameraAlerts, sosAlerts, activeTracking, connectedOfficers, sockets,
                   serial, appended>>

-----------------------------------------------------------------------------
\* One handler runs, its inputs drawn from the sets of `I`; at most I.ingestions
\* alerts are ingested.
Step(I) ==
    \/ \E c \in Conns : Connection(c)
    \/ \E c \in I.actors, officer \in I.officers : OfficerLogin(c, officer)
    \/ \E c \in I.actors, data \in I.trackings : StartTracking(c, data)
    \/ \E c \in I.actors, location \in I.locations : UpdateLocation(c, location)
    \/ \E c \in I.actors : StopTracking(c)
    \/ \E c \in Conns : Disconnect(c)
    \/ \E apiKey \in I.apiKeys, a \in I.cameraBodies :
          serial < I.ingestions /\ SendAlert(apiKey, a)
    \/ \E apiKey \in I.apiKeys, a \in I.sosBodies :
          serial < I.ingestions /\ SendSosAlert(apiKey, a)
    \/ \E alertId \in I.alertIds, alertType \in I.resolveTypes : ResolveAlert(alertId, alertType)
    \/ \E alertType \in I.clearTypes : ClearAlerts(alertType)
    \/ GetTrackingData

\* Every input of the model.
AllInputs ==
    [ actors       |-> Conns,
      officers     |-> OfficerInputs,
      trackings    |-> TrackingInputs,
      locations    |-> LocationInputs,
      apiKeys      |-> ApiKeys,
      cameraBodies |-> CameraBodies,
      sosBodies    |-> SosBodies,
      alertIds     |-> AlertIds,
      resolveTypes |-> AlertTypes,
      clearTypes   |-> AlertTypes,
      ingestions   |-> MaxSerial ]

\* The alert store in full, the registries driven by one connection.
AlertInputs ==
    [ actors       |-> {"s1"},
      officers     |-> {o \in OfficerInputs : o.name = Undef},
      trackings    |-> {d \in TrackingInputs : d.alertType = Undef},
      locations    |-> {l \in LocationInputs : l.lat = Str("13.5")},
      apiKeys      |-> ApiKeys,
      cameraBodies |-> {a \in CameraBodies : a.personCount \in {Undef, Num(2)}},
      sosBodies    |-> {a \in SosBodies : a.userName = Undef},
      alertIds     |-> {id \in AlertIds : id[2] <= 2},
      resolveTypes |-> {Str("camera"), Str("sos"), Undef},
      clearTypes   |-> AlertTypes,
      ingestions   |-> MaxSerial ]

\* The registries in full, the alert store holding at most MaxTracked alerts.
RegistryInputs ==
    [ actors       |-> Conns,
      officers     |-> OfficerInputs,
      trackings    |-> TrackingInputs,
      locations    |-> LocationInputs,
      apiKeys      |-> {API_KEY, Undef},
      cameraBodies |-> {a \in CameraBodies : a.severity = Undef},
      sosBodies    |-> {a \in SosBodies : a.userName = Undef},
      alertIds     |-> {<<"CAM-ALERT", 1>>},
      resolveTypes |-> {Undef},
      clearTypes   |-> {Undef},
      ingestions   |-> MaxTracked ]

\* The timestamps and field values of the store: every camera body, one key,
\* resolution of either kind, the registries driven by one connection.
StampInputs ==
    [ actors       |-> {"s1"},
      officers     |-> {o \in OfficerInputs : o.name = Undef},
      trackings    |-> {d \in TrackingInputs : d.alertType = Undef},
      locations    |-> {l \in LocationInputs : l.lat = Str("13.5")},
      apiKeys      |-> {API_KEY},
      cameraBodies |-> CameraBodies,
      sosBodies    |-> {a \in SosBodies : a.userName = Undef},
      alertIds     |-> {id \in AlertIds : id[2] <= 2},
      resolveTypes |-> {Undef, Str("sos")},
      clearTypes   |-> {Undef},
      ingestions   |-> MaxStamped ]

Next == Step(AllInputs) \/ Tick

\* The whole system.
Spec == Init /\ [][Next]_vars

\* The alert store under every ingestion, resolution and clearing, at a fixed clock.
SpecAlerts == Init /\ [][Step(AlertInputs)]_vars

\* The registries under every socket event of every connection, at a fixed clock.
SpecTracking == Init /\ [][Step(RegistryInputs)]_vars

\* The alert store under ingestion, resolution and clearing while the clock runs.
SpecStamps == Init /\ [][Step(StampInputs) \/ Tick]_vars

-----------------------------------------------------------------------------
(* Vocabulary of the properties *)

\* The ids of a collection, in its order.
Ids(alerts) == [i \in 1..Len(alerts) |-> alerts[i].id]

\* The last k entries of a history, newest first.
NewestFirst(hist, k) == [i \in 1..k |-> hist[Len(hist) - i + 1]]

\* The collection a kind names: the SOS one for "sos", the camera one otherwise.
CollectionOf(alertType) == IF alertType = Str("sos") THEN sosAlerts ELSE cameraAlerts

HasId(alerts, alertId) == \E i \in 1..Len(alerts) : alerts[i].id = alertId

IsIngestion(e) == e.op \in {"send_alert", "send_sos_alert"}

-----------------------------------------------------------------------------
(* C1: each alert collection holds at most MAX_ALERTS entries, and once more
   than MAX_ALERTS alerts have been appended since the last clear it holds
   exactly the MAX_ALERTS most recently appended ones, newest first. *)
C1_StoreBounded ==
    /\ Len(cameraAlerts) <= MAX_ALERTS
    /\ Len(sosAlerts) <= MAX_ALERTS
    /\ Len(appended.camera) > MAX_ALERTS
          => Ids(cameraAlerts) = NewestFirst(appended.camera, MAX_ALERTS)
    /\ Len(appended.sos) > MAX_ALERTS
          => Ids(sosAlerts) = NewestFirst(appended.sos, MAX_ALERTS)

\* An ingestion has just evicted the oldest camera alert.
C1_Witness ==
    /\ event.op = "send_alert"
    /\ Len(appended.camera) > MAX_ALERTS
    /\ Len(cameraAlerts) = MAX_ALERTS

(* C2: an ingestion request whose credential is missing or differs from the
   shared secret is answered 403, changes neither alert collection nor either
   registry, and sends no message. *)
C2_UnauthorizedNoEffect ==
    [][ (IsIngestion(event') /\ event'.arg.apiKey # API_KEY)
          => /\ response'.status = 403
             /\ UNCHANGED <<cameraAlerts, sosAlerts, connectedOfficers, activeTracking>>
             /\ emitted' = <<>> ]_vars

\* A request without the header was refused while there were alerts, a
\* registry entry and a live connection.
C2_Witness ==
    /\ event.op = "send_alert"
    /\ event.arg.apiKey = Undef
    /\ response.status = 403
    /\ cameraAlerts # <<>>
    /\ DOMAIN connectedOfficers # {}
    /\ DOMAIN activeTracking # {}
    /\ sockets # {}

(* C3: resolving an id present in the collection of its kind leaves that alert
   resolved with a non-null timestamp; resolving an id absent from the selected
   collection is answered 404, changes no alert of either collection and
   broadcasts nothing. *)
C3_Resolve ==
    [][ event'.op = "resolve_alert" =>
          LET alertId == event'.arg.alertId
              alertType == event'.arg.alertType
              before == CollectionOf(alertType)
              after == IF alertType = Str("sos") THEN sosAlerts' ELSE cameraAlerts'
          IN  IF HasId(before, alertId)
              THEN /\ response'.status = 200
                   /\ \E i \in 1..Len(after) :
                         /\ after[i].id = alertId
                         /\ after[i].status = "resolved"
                         /\ after[i].respondedAt[1] = "time"
              ELSE /\ response'.status = 404
                   /\ UNCHANGED <<cameraAlerts, sosAlerts>>
                   /\ emitted' = <<>> ]_vars

\* An SOS alert has just been resolved.
C3_Witness ==
    /\ event.op = "resolve_alert"
    /\ event.arg.alertType = Str("sos")
    /\ response.status = 200
    /\ \E i \in 1..Len(sosAlerts) :
          /\ sosAlerts[i].id = event.arg.alertId
          /\ sosAlerts[i].status = "resolved"

(* C4: clear("camera") empties the camera collection only, clear("sos") the
   SOS collection only, any other or omitted kind both; the returned count is
   the number of alerts removed and the registries are unchanged. *)
C4_Clear ==
    [][ event'.op = "clear_alerts" =>
          LET alertType == event'.arg.alertType
          IN  /\ alertType = Str("camera") =>
                    /\ cameraAlerts' = <<>>
                    /\ UNCHANGED sosAlerts
                    /\ response'.cleared = Len(cameraAlerts)
              /\ alertType = Str("sos") =>
                    /\ sosAlerts' = <<>>
                    /\ UNCHANGED cameraAlerts
                    /\ response'.cleared = Len(sosAlerts)
              /\ alertType \notin {Str("camera"), Str("sos")} =>
                    /\ cameraAlerts' = <<>>
                    /\ sosAlerts' = <<>>
                    /\ response'.cleared = Len(cameraAlerts) + Len(sosAlerts)
              /\ UNCHANGED <<connectedOfficers, activeTracking>> ]_vars

\* The camera collection has just been cleared of a full collection, beside
\* SOS alerts and registry entries that stayed.
C4_Witness ==
    /\ event.op = "clear_alerts"
    /\ event.arg.alertType = Str("camera")
    /\ response.cleared = MAX_ALERTS
    /\ cameraAlerts = <<>>
    /\ sosAlerts # <<>>
    /\ DOMAIN connectedOfficers # {}
    /\ DOMAIN activeTracking # {}

(* C5: an ingestion with a valid credential that succeeds puts the new alert,
   status active, at the head of the collection of its kind, sends exactly one
   new_camera_alert / new_sos_alert carrying that alert to every connection
   live at that moment, and echoes the same alert to the caller, in one step. *)
C5_IngestFanOut ==
    [][ (IsIngestion(event') /\ event'.arg.apiKey = API_KEY /\ response'.status = 200) =>
          LET camera == event'.op = "send_alert"
              after == IF camera THEN cameraAlerts' ELSE sosAlerts'
              alert == response'.alert
          IN  /\ Len(after) >= 1
              /\ after[1] = alert
              /\ alert.status = "active"
              /\ alert.type = (IF camera THEN "camera" ELSE "sos")
              /\ ~HasId(IF camera THEN cameraAlerts ELSE sosAlerts, alert.id)
              /\ emitted' = << [to |-> sockets,
                                event |-> IF camera THEN "new_camera_alert"
                                                    ELSE "new_sos_alert",
                                payload |-> alert] >>
              /\ emitted'[1].payload.id = after[1].id ]_vars

\* A camera alert has just been ingested over an older one and fanned out to
\* two live connections.
C5_Witness ==
    /\ event.op = "send_alert"
    /\ response.status = 200
    /\ Len(cameraAlerts) >= 2
    /\ cameraAlerts[1] = response.alert
    /\ Len(emitted) = 1
    /\ emitted[1].to = Conns

\* Every other connection's entry of a registry is as it was.
OthersKept(before, after, c) ==
    \A k \in Conns \ {c} :
        /\ k \in DOMAIN after <=> k \in DOMAIN before
        /\ k \in DOMAIN before => after[k] = before[k]

\* The connection ids GET /tracking-data lists under tracking and under officers.
ListedTracking(r) == {e.officerId : e \in r.tracking}
ListedOfficers(r) == {e.id : e \in r.officers}

(* C6: after a connection disconnects neither registry holds an entry for it,
   the entries of all other connections are unchanged, and GET /tracking-data
   lists no connection that is not live, in either list. *)
C6_DisconnectRemoves ==
    /\ [][ event'.op = "disconnect" =>
             LET c == event'.conn
             IN  /\ c \notin DOMAIN connectedOfficers'
                 /\ c \notin DOMAIN activeTracking'
                 /\ OthersKept(connectedOfficers, connectedOfficers', c)
                 /\ OthersKept(activeTracking, activeTracking', c) ]_vars
    /\ [](event.op = "tracking_data" =>
             /\ ListedTracking(response) = DOMAIN activeTracking
             /\ ListedOfficers(response) = DOMAIN connectedOfficers
             /\ ListedTracking(response) \cup ListedOfficers(response) \subseteq sockets)

\* A connection has just disconnected while the other one keeps its officer
\* and its session.
C6_Witness ==
    /\ event.op = "disconnect"
    /\ sockets = Conns \ {event.conn}
    /\ DOMAIN connectedOfficers = sockets
    /\ DOMAIN activeTracking = sockets

(* C7: when a connection disconnects, tracking_stopped carrying its id is
   broadcast to the remaining live connections. *)
C7_DisconnectBroadcastsStop ==
    [][ event'.op = "disconnect" =>
          \E i \in 1..Len(emitted') :
              emitted'[i] = [to |-> sockets', event |-> "tracking_stopped",
                             payload |-> [officerId |-> event'.conn]] ]_vars

(* C8, as stated: for every connection with an active tracking session,
   update_location sets the session's responder position to the reported
   coordinates and broadcasts the updated session as tracking_update. *)
C8_UpdateMovesSession ==
    [][ (event'.op = "update_location" /\ event'.conn \in DOMAIN activeTracking) =>
          LET c == event'.conn
              location == event'.arg
          IN  /\ c \in DOMAIN activeTracking'
              /\ activeTracking'[c].officerLat = ParseFloat(location.lat)
              /\ activeTracking'[c].officerLng = ParseFloat(location.lng)
              /\ emitted' = << [to |-> sockets, event |-> "tracking_update",
                                payload |-> [officerId |-> c,
                                             trackingData |-> activeTracking'[c]]] >> ]_vars

(* C8, amended: for every connection with an officer entry and an active
   tracking session, update_location sets the session's responder position to
   the numeric value of the reported coordinates, changes nothing else of the
   session, and broadcasts the updated session as tracking_update to all
   connections; without an officer entry the session is left as it was. *)
C8_UpdateMovesSessionOfOfficer ==
    [][ (event'.op = "update_location" /\ event'.conn \in DOMAIN activeTracking) =>
          LET c == event'.conn
              location == event'.arg
          IN  IF c \in DOMAIN connectedOfficers
              THEN /\ c \in DOMAIN activeTracking'
                   /\ activeTracking'[c] =
                         [activeTracking[c] EXCEPT !.officerLat = ParseFloat(location.lat),
                                                   !.officerLng = ParseFloat(location.lng)]
                   /\ emitted' = << [to |-> sockets, event |-> "tracking_update",
                                     payload |-> [officerId |-> c,
                                                  trackingData |-> activeTracking'[c]]] >>
              ELSE /\ UNCHANGED activeTracking
                   /\ emitted' = <<>> ]_vars

\* A logged-in officer with a session has just reported "13.5", "80.25" and
\* the session holds those numbers, not the officer's earlier position.
C8_Witness ==
    /\ event.op = "update_location"
    /\ event.arg = [lat |-> Str("13.5"), lng |-> Str("80.25")]
    /\ event.conn \in DOMAIN connectedOfficers
    /\ event.conn \in DOMAIN activeTracking
    /\ activeTracking[event.conn].officerLat = Num(135000)
    /\ activeTracking[event.conn].officerLng = Num(802500)
    /\ connectedOfficers[event.conn].name = Str("Officer")
    /\ Len(emitted) = 1

(* C9: stop_tracking removes the sender's session (none to remove: no change),
   leaves its officer entry and every other connection's session unchanged,
   and broadcasts tracking_stopped carrying only the connection id to all live
   connections; GET /tracking-data lists under tracking exactly the
   connections that have a session. *)
C9_StopTracking ==
    /\ [][ event'.op = "stop_tracking" =>
             LET c == event'.conn
             IN  /\ c \notin DOMAIN activeTracking'
                 /\ OthersKept(activeTracking, activeTracking', c)
                 /\ UNCHANGED connectedOfficers
                 /\ emitted' = << [to |-> sockets, event |-> "tracking_stopped",
                                   payload |-> [officerId |-> c]] >> ]_vars
    /\ [](event.op = "tracking_data" => ListedTracking(response) = DOMAIN activeTracking)

\* An officer has just stopped tracking while the other connection's session
\* goes on.
C9_Witness ==
    /\ event.op = "stop_tracking"
    /\ event.conn \in DOMAIN connectedOfficers
    /\ sockets = Conns
    /\ DOMAIN activeTracking = Conns \ {event.conn}
    /\ Len(emitted) = 1
    /\ emitted[1].to = Conns

(* C10: on connect the joining connection, and no other, is sent
   all_camera_alerts and all_sos_alerts holding the two collections as they
   are at that moment; it was sent nothing before, since messages go to live
   connections only; connecting changes no store or registry. *)
C10_ConnectSnapshot ==
    /\ [][ event'.op = "connection" =>
             LET c == event'.conn
             IN  /\ c \notin sockets
                 /\ c \in sockets'
                 /\ emitted' = << [to |-> {c}, event |-> "all_camera_alerts",
                                   payload |-> cameraAlerts],
                                  [to |-> {c}, event |-> "all_sos_alerts",
                                   payload |-> sosAlerts] >>
                 /\ UNCHANGED <<cameraAlerts, sosAlerts, connectedOfficers,
                                activeTracking>> ]_vars
    /\ [](\A i \in 1..Len(emitted) : emitted[i].to \subseteq sockets)

\* A connection has just joined beside a live one and was sent non-empty
\* snapshots of both collections.
C10_Witness ==
    /\ event.op = "connection"
    /\ sockets = Conns
    /\ Len(emitted) = 2
    /\ emitted[1].payload = cameraAlerts
    /\ emitted[2].payload = sosAlerts
    /\ Len(cameraAlerts) = MAX_ALERTS
    /\ sosAlerts # <<>>
    /\ \E i \in 1..Len(cameraAlerts) : cameraAlerts[i].status = "resolved"

\* The value a field takes from a payload: the supplied one, the default when
\* none (or a falsy one) is supplied.
SuppliedOr(v, default) == IF Truthy(v) THEN v ELSE default

(* C11: officer_login sets the sender's presence to exactly the
   supplied-or-default profile, whatever its prior presence held, leaves the
   other presences alone, and then broadcasts officers_updated holding every
   current presence to all live connections. *)
C11_LoginReplaces ==
    [][ event'.op = "officer_login" =>
          LET c == event'.conn
              officer == event'.arg
          IN  /\ c \in DOMAIN connectedOfficers'
              /\ connectedOfficers'[c] =
                    [ name      |-> SuppliedOr(officer.name, Str("Officer")),
                      lat       |-> SuppliedOr(officer.lat, Num(DefaultLat)),
                      lng       |-> SuppliedOr(officer.lng, Num(DefaultLng)),
                      unit      |-> SuppliedOr(officer.unit, Str("Unit-01")),
                      status    |-> "available",
                      loginTime |-> Time(now) ]
              /\ OthersKept(connectedOfficers, connectedOfficers', c)
              /\ Len(emitted') = 1
              /\ emitted'[1].to = sockets
              /\ emitted'[1].event = "officers_updated"
              /\ BagCardinality(emitted'[1].payload) = Cardinality(DOMAIN connectedOfficers')
              /\ \A k \in DOMAIN connectedOfficers' :
                    BagIn(connectedOfficers'[k], emitted'[1].payload) ]_vars

\* An officer whose session still holds the position of an earlier presence
\* has just logged in again with an empty profile, beside another officer, and
\* holds the defaults only.
C11_Witness ==
    /\ event.op = "officer_login"
    /\ event.arg.name = Undef
    /\ connectedOfficers[event.conn].lat = Num(DefaultLat)
    /\ connectedOfficers[event.conn].name = Str("Officer")
    /\ event.conn \in DOMAIN activeTracking
    /\ activeTracking[event.conn].officerLat = Num(135000)
    /\ DOMAIN connectedOfficers = Conns
    /\ BagCardinality(emitted[1].payload) = 2
    /\ emitted[1].to = Conns

(* C12: start_tracking from any live connection is accepted whether or not the
   alert exists in the store; it leaves the sender with exactly one session,
   the new one for the named alert, replacing any prior one, and leaves the
   other sessions, the presences and the store alone. The acknowledgement
   tracking_started goes to the originator only and precedes the
   tracking_update broadcast of the new session to all live connections. *)
C12_StartTracking ==
    /\ [][ event'.op = "start_tracking" =>
             LET c == event'.conn
                 data == event'.arg
             IN  /\ c \in DOMAIN activeTracking'
                 /\ activeTracking'[c].alertId = data.alertId
                 /\ activeTracking'[c].status = "tracking"
                 /\ activeTracking'[c].startTime = Time(now)
                 /\ OthersKept(activeTracking, activeTracking', c)
                 /\ UNCHANGED <<connectedOfficers, cameraAlerts, sosAlerts>>
                 /\ Len(emitted') = 2
                 /\ emitted'[1].to = {c}
                 /\ emitted'[1].event = "tracking_started"
                 /\ emitted'[1].payload = [success |-> TRUE, alertId |-> data.alertId]
                 /\ emitted'[2].to = sockets
                 /\ emitted'[2].event = "tracking_update"
                 /\ emitted'[2].payload =
                       [officerId |-> c, trackingData |-> activeTracking'[c]] ]_vars
    /\ [](\A c \in sockets : \A data \in TrackingInputs :
             ENABLED StartTracking(c, data))

\* A connection that was tracking one alert has started tracking another, one
\* that is in neither collection, beside a second live connection.
C12_Witness ==
    /\ event.op = "start_tracking"
    /\ event.arg.alertId = <<"SOS-ALERT", 2>>
    /\ activeTracking[event.conn].alertId = <<"SOS-ALERT", 2>>
    /\ activeTracking[event.conn].officerLat = Num(135000)
    /\ ~HasId(cameraAlerts, <<"SOS-ALERT", 2>>)
    /\ ~HasId(sosAlerts, <<"SOS-ALERT", 2>>)
    /\ Len(cameraAlerts) = 1
    /\ sockets = Conns
    /\ emitted[1].to = {event.conn}
    /\ emitted[2].to = Conns

\* The stored alert of an id that a collection holds.
AlertOf(alerts, alertId) == alerts[CHOOSE i \in 1..Len(alerts) : alerts[i].id = alertId]

\* The ids a collection holds.
IdSet(alerts) == {alerts[i].id : i \in 1..Len(alerts)}

\* An alert that carries no resolution timestamp (null, or no such field).
Unstamped(alert) == alert.respondedAt \in {Null, Undef}

(* C14 as stated: an alert starts active with no resolution timestamp; once the
   timestamp is set no later operation, a repeated resolve included, changes
   it; a resolved alert never returns to active; receivedAt never changes. *)
C14_StampedOnce ==
    [][ \A kind \in {"camera", "sos"} :
          LET before == IF kind = "sos" THEN sosAlerts ELSE cameraAlerts
              after  == IF kind = "sos" THEN sosAlerts' ELSE cameraAlerts'
          IN  /\ \A id \in IdSet(after) \ IdSet(before) :
                    AlertOf(after, id).status = "active" /\ Unstamped(AlertOf(after, id))
              /\ \A id \in IdSet(after) \cap IdSet(before) :
                    /\ AlertOf(after, id).receivedAt = AlertOf(before, id).receivedAt
                    /\ AlertOf(before, id).status = "resolved"
                          => AlertOf(after, id).status = "resolved"
                    /\ ~Unstamped(AlertOf(before, id))
                          => AlertOf(after, id).respondedAt = AlertOf(before, id).respondedAt
      ]_vars

(* C14 as the code has it: an alert starts active with no resolution timestamp
   and receivedAt at the time of ingestion; receivedAt never changes and a
   resolved alert never returns to active; the resolution timestamp changes
   only by a successful resolve of that alert, and every successful resolve,
   the first or a repeated one, sets it to the time of that resolve. *)
C14_StampedByEachResolve ==
    [][ \A kind \in {"camera", "sos"} :
          LET before == IF kind = "sos" THEN sosAlerts ELSE cameraAlerts
              after  == IF kind = "sos" THEN sosAlerts' ELSE cameraAlerts'
              resolves(id) == /\ event'.op = "resolve_alert"
                              /\ response'.status = 200
                              /\ event'.arg.alertId = id
          IN  /\ \A id \in IdSet(after) \ IdSet(before) :
                    /\ AlertOf(after, id).status = "active"
                    /\ Unstamped(AlertOf(after, id))
                    /\ AlertOf(after, id).receivedAt = Time(now)
              /\ \A id \in IdSet(after) \cap IdSet(before) :
                    /\ AlertOf(after, id).receivedAt = AlertOf(before, id).receivedAt
                    /\ AlertOf(before, id).status = "resolved"
                          => AlertOf(after, id).status = "resolved"
                    /\ resolves(id)
                          => /\ AlertOf(after, id).respondedAt = Time(now)
                             /\ AlertOf(after, id).status = "resolved"
                    /\ ~resolves(id)
                          => /\ AlertOf(after, id).respondedAt = AlertOf(before, id).respondedAt
                             /\ AlertOf(after, id).status = AlertOf(before, id).status
      ]_vars

\* A resolve has just stamped, at a later time, an alert ingested earlier.
C14_Witness ==
    /\ event.op = "resolve_alert"
    /\ response.status = 200
    /\ now = 1
    /\ \E i \in 1..Len(cameraAlerts) :
          /\ cameraAlerts[i].id = event.arg.alertId
          /\ cameraAlerts[i].receivedAt = Time(0)
          /\ cameraAlerts[i].respondedAt = Time(1)
          /\ cameraAlerts[i].status = "resolved"

(* C18: every stored alert satisfies the field domains of the data model: a
   camera alert's severity is one of LOW, MEDIUM, HIGH, CRITICAL and its
   personCount is a non-negative integer; an SOS alert's severity is
   CRITICAL. *)
C18_FieldDomains ==
    /\ \A i \in 1..Len(cameraAlerts) :
          /\ cameraAlerts[i].severity \in
                {Str("LOW"), Str("MEDIUM"), Str("HIGH"), Str("CRITICAL")}
          /\ cameraAlerts[i].personCount[1] = "num"
          /\ cameraAlerts[i].personCount[2] >= 0
    /\ \A i \in 1..Len(sosAlerts) : sosAlerts[i].severity = Str("CRITICAL")

(* C15: update_location from a connection that has no presence is ignored:
   the presences, the sessions, the store and the set of connections are
   unchanged and no message is sent. *)
C15_UpdateWithoutPresence ==
    [][ (event'.op = "update_location" /\ event'.conn \notin DOMAIN connectedOfficers) =>
          /\ UNCHANGED <<connectedOfficers, activeTracking, cameraAlerts, sosAlerts, sockets>>
          /\ emitted' = <<>>
          /\ response' = NoResponse ]_vars

\* A connection that is tracking an alert but never logged in has just
\* reported a position, beside a logged-in officer on the other connection;
\* its session still holds the fallback position.
C15_Witness ==
    /\ event.op = "update_location"
    /\ event.arg = [lat |-> Num(121000), lng |-> Num(772000)]
    /\ event.conn \notin DOMAIN connectedOfficers
    /\ event.conn \in DOMAIN activeTracking
    /\ activeTracking[event.conn].officerLat = Num(DefaultLat)
    /\ DOMAIN connectedOfficers = Conns \ {event.conn}
    /\ emitted = <<>>

(* C16: in every state where a connection has both a presence and a session,
   the session's responder position equals the presence's position. *)
C16_SessionMirrorsPresence ==
    \A c \in DOMAIN connectedOfficers \cap DOMAIN activeTracking :
        /\ activeTracking[c].officerLat = connectedOfficers[c].lat
        /\ activeTracking[c].officerLng = connectedOfficers[c].lng

(* C17: a session stays until stop_tracking or the disconnect of its own
   connection: no other step removes it, and only a start_tracking of its own
   connection changes the alert it names. Ingestion, resolution and clearing
   of alerts, the queries, and every event of another connection leave its
   existence and its alertId unchanged. *)
C17_SessionStays ==
    [][ \A c \in DOMAIN activeTracking :
          LET own(op) == event'.op = op /\ event'.conn = c
          IN  /\ c \notin DOMAIN activeTracking'
                    => own("stop_tracking") \/ own("disconnect")
              /\ (c \in DOMAIN activeTracking'
                    /\ activeTracking'[c].alertId # activeTracking[c].alertId)
                    => own("start_tracking") ]_vars

\* The alert a session names has just been resolved, beside a logged-in
\* officer on the other connection, and the session is still there.
C17_Witness ==
    /\ event.op = "resolve_alert"
    /\ response.status = 200
    /\ Len(cameraAlerts) = 1
    /\ cameraAlerts[1].id = <<"CAM-ALERT", 1>>
    /\ cameraAlerts[1].status = "resolved"
    /\ sockets = Conns
    /\ "s1" \in DOMAIN activeTracking
    /\ activeTracking["s1"].alertId = <<"CAM-ALERT", 1>>
    /\ "s2" \in DOMAIN connectedOfficers

(* C19: in every reachable state every key of the presence registry and every
   key of the session registry is the id of a live connection. *)
C19_KeysAreLive ==
    /\ DOMAIN connectedOfficers \subseteq sockets
    /\ DOMAIN activeTracking \subseteq sockets

\* The last live connection, which held a presence and a session when the
\* other one left, has left too: both registries are empty.
C19_Witness ==
    /\ event.op = "disconnect"
    /\ sockets = {}
    /\ DOMAIN connectedOfficers = {}
    /\ DOMAIN activeTracking = {}
    /\ serial = MaxTracked

\* A client's view after one message, by the rules of the broadcast protocol:
\* a snapshot replaces a collection, a new alert is inserted at the head and
\* the tail beyond MAX_ALERTS dropped, a resolved alert replaces the one with
\* its id, a clearing empties the named collection(s); other messages do not
\* concern the alerts.
Inserted(alerts, alert) ==
    LET all == <<alert>> \o alerts
    IN  SubSeq(all, 1, IF Len(all) > MAX_ALERTS THEN MAX_ALERTS ELSE Len(all))

Replaced(alerts, alert) ==
    [i \in 1..Len(alerts) |-> IF alerts[i].id = alert.id THEN alert ELSE alerts[i]]

Applied(view, m) ==
    IF m.event = "all_camera_alerts" THEN [view EXCEPT !.camera = m.payload]
    ELSE IF m.event = "all_sos_alerts" THEN [view EXCEPT !.sos = m.payload]
    ELSE IF m.event = "new_camera_alert" THEN [view EXCEPT !.camera = Inserted(@, m.payload)]
    ELSE IF m.event = "new_sos_alert" THEN [view EXCEPT !.sos = Inserted(@, m.payload)]
    ELSE IF m.event = "alert_resolved"
         THEN [camera |-> Replaced(view.camera, m.payload.alert),
               sos    |-> Replaced(view.sos, m.payload.alert)]
    ELSE IF m.event = "camera_alerts_cleared" THEN [view EXCEPT !.camera = <<>>]
    ELSE IF m.event = "sos_alerts_cleared" THEN [view EXCEPT !.sos = <<>>]
    ELSE IF m.event = "all_alerts_cleared" THEN [camera |-> <<>>, sos |-> <<>>]
    ELSE view

\* The view after a sequence of messages, applied in order.
RECURSIVE AppliedAll(_, _)
AppliedAll(view, ms) ==
    IF ms = <<>> THEN view ELSE AppliedAll(Applied(view, Head(ms)), Tail(ms))

(* C20: the view of every live connection equals the server's two
   collections after every handler. Stated as the step that carries it from
   one handler to the next: a view that equals the collections before a
   handler (an empty view, for a connection that is just joining) equals the
   collections after it, once the messages the handler sent to that
   connection are applied in the order sent. *)
C20_ViewsFollowStore ==
    [][ \A c \in sockets' :
          LET view == IF c \in sockets
                      THEN [camera |-> cameraAlerts, sos |-> sosAlerts]
                      ELSE [camera |-> <<>>, sos |-> <<>>]
              delivered == SelectSeq(emitted', LAMBDA m : c \in m.to)
          IN  AppliedAll(view, delivered) = [camera |-> cameraAlerts', sos |-> sosAlerts']
      ]_vars

\* A live connection has just been sent the alert whose insertion dropped the
\* oldest one of a full collection, a resolved one being kept in it.
C20_Witness ==
    /\ event.op = "send_alert"
    /\ response.status = 200
    /\ sockets # {}
    /\ emitted[1].to = sockets
    /\ Len(cameraAlerts) = MAX_ALERTS
    /\ cameraAlerts[1].id = <<"CAM-ALERT", MaxSerial>>
    /\ cameraAlerts[MAX_ALERTS].status = "resolved"
    /\ Len(sosAlerts) = 1

=============================================================================
